---- MODULE Spec2Model ----
(***************************************************************************)
(* Model of main/views.py of the screenshare Slack webhook: the message    *)
(* history folded from Slack events (image shared, message deleted,        *)
(* reaction added / removed), the colour derived from a message's          *)
(* reactions, and the states sent to the listeners.                        *)
(*                                                                         *)
(* Every request is handled by one atomic action that models the whole     *)
(* slack_event view for that request.  The variables pre, last, found, pub *)
(* and resp record, for the request being answered, the history before it, *)
(* the request, the message message_for_ts returned, what was passed to    *)
(* send_state and the HTTP outcome, and io whether the handler called      *)
(* requests.get and whether it entered the get_message_history scope;      *)
(* Return drops that record when the response has gone out, and the worker *)
(* takes the next request.                                                 *)
(***************************************************************************)
EXTENDS Integers, Sequences, FiniteSets, TLC

\* ------------------------------------------------------------------ bounds
\* longest message history
MaxHist == 2
\* event timestamps are 1..MaxTs
MaxTs == 2
\* most reactions held by the whole history
MaxReactions == 3
\* longest reaction sequence given to the resolver on its own
MaxScan == 3
\* requests handled at the same time
MaxWorkers == 2
\* requests the workers take in all
MaxTaken == 4

\* ----------------------------------------------------------------- strings
\* Python strings are TLA+ strings; Chars spells those that take part in a
\* substring test.
Chars ==
  [ night            |-> <<"n","i","g","h","t">>,
    black            |-> <<"b","l","a","c","k">>,
    red              |-> <<"r","e","d">>,
    orange           |-> <<"o","r","a","n","g","e">>,
    yellow           |-> <<"y","e","l","l","o","w">>,
    green            |-> <<"g","r","e","e","n">>,
    blue             |-> <<"b","l","u","e">>,
    purple           |-> <<"p","u","r","p","l","e">>,
    smile            |-> <<"s","m","i","l","e">>,
    tired_face       |-> <<"t","i","r","e","d","_","f","a","c","e">>,
    night_with_stars |-> <<"n","i","g","h","t","_","w","i","t","h","_","s","t","a","r","s">>,
    blue_heart       |-> <<"b","l","u","e","_","h","e","a","r","t">>,
    redblack         |-> <<"r","e","d","b","l","a","c","k">>,
    bluenight        |-> <<"b","l","u","e","n","i","g","h","t">>,
    nigh             |-> <<"n","i","g","h">> ]
  @@ ("text/html"       :> <<"t","e","x","t","/","h","t","m","l">>)
  @@ ("image/jpeg"      :> <<"i","m","a","g","e","/","j","p","e","g">>)
  @@ ("image/gif"       :> <<"i","m","a","g","e","/","g","i","f">>)
  @@ ("image/png"       :> <<"i","m","a","g","e","/","p","n","g">>)
  @@ ("application/pdf" :> <<"a","p","p","l","i","c","a","t","i","o","n","/","p","d","f">>)
  @@ ("text/html; charset=utf-8" :>
        <<"t","e","x","t","/","h","t","m","l",";"," ","c","h","a","r","s","e","t","=","u","t","f","-","8">>)

\* Python's  sub in s  on strings
In(sub, s) ==
  LET a == Chars[sub]
      b == Chars[s]
  IN  \E k \in 0..(Len(b) - Len(a)) : \A j \in 1..Len(a) : b[k + j] = a[j]

\* Python's  s.startswith(prefix)
StartsWith(s, prefix) ==
  LET a == Chars[prefix]
      b == Chars[s]
  IN  Len(a) <= Len(b) /\ \A j \in 1..Len(a) : b[j] = a[j]

\* ----------------------------------------------------------- the resolver
None == "None"

colors == <<"black", "red", "orange", "yellow", "green", "blue", "purple">>

\* lines 36-43: the colour one reaction yields, None when it matches no rule
ReactionColor(reaction) ==
  IF In("night", reaction)
  THEN "#000"
  ELSE LET hits == {j \in 1..Len(colors) : In(colors[j], reaction)}
       IN  IF hits = {} THEN None
           ELSE colors[CHOOSE j \in hits : \A k \in hits : j <= k]

\* the loop of lines 35-45 without its break: the last reaction decides
RECURSIVE new_color_no_break(_)
new_color_no_break(reactions) ==
  IF reactions = <<>> THEN None
  ELSE IF Len(reactions) = 1 THEN ReactionColor(Head(reactions))
  ELSE new_color_no_break(Tail(reactions))

\* lines 34-45: the loop over message['reactions'], left at the first
\* reaction whose colour is truthy
RECURSIVE new_color_of(_)
new_color_of(reactions) ==
  IF reactions = <<>> THEN None
  ELSE LET c == ReactionColor(Head(reactions))
       IN  IF c # None THEN c
           ELSE IF Len(reactions) = 1 THEN c
           ELSE new_color_of(Tail(reactions))

\* line 47:  new_color or '#fff'
resolve(reactions) ==
  LET new_color == new_color_of(reactions)
  IN  IF new_color = None THEN "#fff" ELSE new_color

\* -------------------------------------------------------------- the state
VARIABLES
  hist,          \* the message history behind get_message_history()
  pre,           \* the history before the request handled last
  last,          \* the request handled last
  found,         \* index of the message message_for_ts returned, 0 for none
  pub,           \* the states the last handler passed to send_state, in order
  resp,          \* outcome of the last handler
  io,            \* what the last handler called: requests.get, the history scope
  folded,        \* the ts of the image shares stored so far, while no other
                 \* request has been handled
  view,          \* what the listeners show: the last full state sent, its
                 \* colour replaced by the {color} states sent after it
  added,         \* the reaction_added handled just before, with the history
                 \* it found
  reactions_in,  \* a reaction sequence given to the resolver on its own
  color_out,     \* the resolver's answer for reactions_in
  lock,          \* the worker inside the get_message_history scope, 0 for none
  taken,         \* how many requests the workers have taken
  proc           \* per worker: where its view is, its request, the history
                 \* the scope handed to it

vars == <<hist, pre, last, found, pub, resp, io, folded, view, added,
          reactions_in, color_out, lock, taken, proc>>

\* ----------------------------------------------------------- the requests
Ts == 1..MaxTs

ReactionNames == {"smile", "tired_face"}

\* what requests.get may give back: an exception, or a response with a
\* status, a Content-Type header and a body
NoResponse == [raises |-> FALSE, ok |-> FALSE, content_type |-> "none", content |-> "none"]
Raises     == [raises |-> TRUE,  ok |-> FALSE, content_type |-> "none", content |-> "none"]
Png        == [raises |-> FALSE, ok |-> TRUE,  content_type |-> "image/png", content |-> "bytes"]
Pdf        == [raises |-> FALSE, ok |-> TRUE,  content_type |-> "application/pdf", content |-> "bytes"]
Html       == [raises |-> FALSE, ok |-> TRUE,  content_type |-> "text/html; charset=utf-8", content |-> "bytes"]
NotFound   == [raises |-> FALSE, ok |-> FALSE, content_type |-> "image/png", content |-> "bytes"]

\* a request that carries nothing; the shapes below fill in what they need
Blank ==
  [ signed           |-> TRUE,
    type             |-> "event_callback",
    challenge        |-> "none",
    event_type       |-> "none",
    subtype          |-> "none",
    filetype         |-> "none",
    image_url        |-> FALSE,
    previous_message |-> 0,
    ts               |-> 0,
    item_ts          |-> 0,
    reaction         |-> "none",
    file_response    |-> NoResponse ]

Requests ==
  { [Blank EXCEPT !.signed = FALSE, !.event_type = "reaction_added",
                  !.item_ts = 1, !.reaction = "tired_face"],
    [Blank EXCEPT !.signed = FALSE, !.event_type = "message",
                  !.subtype = "file_share", !.filetype = "png", !.ts = 1,
                  !.file_response = Png],
    [Blank EXCEPT !.signed = FALSE, !.type = "url_verification",
                  !.challenge = "token"] }
  \cup { [Blank EXCEPT !.type = "url_verification", !.challenge = "token"] }
  \cup { [Blank EXCEPT !.event_type = "channel_created"],
         [Blank EXCEPT !.event_type = "message"] }
  \cup { [Blank EXCEPT !.event_type = "message", !.subtype = "file_share",
                       !.filetype = "png", !.ts = t, !.file_response = Png] :
           t \in Ts }
  \cup { [Blank EXCEPT !.event_type = "message", !.subtype = "file_share",
                       !.filetype = "png", !.ts = 1, !.file_response = r] :
           r \in {Raises, Html, Pdf} }
  \cup { [Blank EXCEPT !.event_type = "message", !.subtype = "file_share",
                       !.filetype = "pdf", !.ts = 1, !.file_response = Pdf] }
  \cup { [Blank EXCEPT !.event_type = "message", !.subtype = "message_changed",
                       !.image_url = TRUE, !.ts = t, !.file_response = Png] :
           t \in Ts }
  \cup { [Blank EXCEPT !.event_type = "message", !.subtype = "message_changed",
                       !.image_url = TRUE, !.ts = 1, !.file_response = r] :
           r \in {Raises, Pdf, NotFound} }
  \cup { [Blank EXCEPT !.event_type = "message", !.subtype = "message_deleted",
                       !.previous_message = t] : t \in 0..MaxTs }
  \cup { [Blank EXCEPT !.event_type = e, !.item_ts = t, !.reaction = n] :
           e \in {"reaction_added", "reaction_removed"}, t \in Ts, n \in ReactionNames }

\* ------------------------------------------------------------ the helpers
\* a check that lets every request through
verify_nothing(request) == TRUE

\* lines 20-29: TRUE when no SuspiciousOperation is raised
verify_slack_request(request) == request.signed

\* main.helpers.get_message_history: what the scope hands out is the stored
\* history; what the handler leaves in it is stored again (hist' in Handled)
get_message_history == hist

\* main.helpers.send_state: one call hands one state to the listeners
send_state(state) == <<state>>

\* main.helpers.message_for_ts: the indices it may return for ts, 0 standing
\* for (None, False); is_most_recent is  index = Len(history)
message_for_ts(history, ts) ==
  LET hits == {i \in 1..Len(history) : history[i].id = ts}
  IN  IF hits = {} THEN {0} ELSE hits

\* lines 53-55
encoded_image(file_response) ==
  <<"data:", file_response.content_type, ";base64,", file_response.content>>

\* store_image with  message_history.insert(0, ...)  for the append
store_image_at_front(ts, file_response) ==
  LET history == get_message_history
      message_history ==
        << [ id        |-> ts,
             image     |-> encoded_image(file_response),
             reactions |-> <<>>,
             color     |-> "#fff" ] >> \o history
  IN  [ hist |-> message_history,
        pub  |-> send_state(message_history[Len(message_history)]) ]

\* store_image with  send_state(message_history[0])
store_image_sends_first(ts, file_response) ==
  LET history == get_message_history
      message_history ==
        Append(history, [ id        |-> ts,
                          image     |-> encoded_image(file_response),
                          reactions |-> <<>>,
                          color     |-> "#fff" ])
  IN  [ hist |-> message_history,
        pub  |-> send_state(message_history[1]) ]

\* lines 56-63: the history store_image leaves and what it sends
store_image(ts, file_response) ==
  LET history == get_message_history
      message_history ==
        Append(history, [ id        |-> ts,
                          image     |-> encoded_image(file_response),
                          reactions |-> <<>>,
                          color     |-> "#fff" ])
  IN  [ hist |-> message_history,
        pub  |-> send_state(message_history[Len(message_history)]) ]

\* handle_reactions with  message["color"] = new_color  at line 47
handle_reactions_stores_none(message, is_most_recent) ==
  LET old_color == message.color
      new_color == new_color_of(message.reactions)
  IN  IF old_color # new_color
      THEN [ message |-> [message EXCEPT !.color = new_color],
             pub     |-> IF is_most_recent
                         THEN send_state([color |-> new_color])
                         ELSE <<>> ]
      ELSE [ message |-> message, pub |-> <<>> ]

\* handle_reactions without the  if is_most_recent  of line 48
handle_reactions_ungated(message, is_most_recent) ==
  LET old_color == message.color
      new_color == new_color_of(message.reactions)
  IN  IF old_color # new_color
      THEN [ message |-> [message EXCEPT !.color = resolve(message.reactions)],
             pub     |-> send_state([color |-> resolve(message.reactions)]) ]
      ELSE [ message |-> message, pub |-> <<>> ]

\* lines 32-49: the message handle_reactions leaves and what it sends
handle_reactions(message, is_most_recent) ==
  LET old_color == message.color
      new_color == new_color_of(message.reactions)
  IN  IF old_color # new_color
      THEN [ message |-> [message EXCEPT !.color = resolve(message.reactions)],
             pub     |-> IF is_most_recent
                         THEN send_state([color |-> resolve(message.reactions)])
                         ELSE <<>> ]
      ELSE [ message |-> message, pub |-> <<>> ]

\* list.append(x)
InsertLast(seq, x) == Append(seq, x)

\* list.insert(0, x)
Insert0(seq, x) == <<x>> \o seq

\* every occurrence goes
RemoveAll(seq, x) == SelectSeq(seq, LAMBDA y : y # x)

\* list.remove(x) for an x that is in the list: the first occurrence goes
Remove(seq, x) ==
  LET i == CHOOSE k \in 1..Len(seq) :
             seq[k] = x /\ \A j \in 1..(k - 1) : seq[j] # x
  IN  SubSeq(seq, 1, i - 1) \o SubSeq(seq, i + 1, Len(seq))

\* list.pop(0)
PopFirst(seq) == SubSeq(seq, 2, Len(seq))

\* list.pop()
Pop(seq) == SubSeq(seq, 1, Len(seq) - 1)

RECURSIVE TotalReactions(_)
TotalReactions(history) ==
  IF history = <<>> THEN 0
  ELSE Len(Head(history).reactions) + TotalReactions(Tail(history))

\* ------------------------------------------- which branch a request takes
\* line 75
IsUrlVerification(request) == request.type = "url_verification"
\* lines 81, 86
IsFileShare(request) ==
  /\ ~IsUrlVerification(request)
  /\ request.event_type = "message"
  /\ request.subtype = "file_share"
\* line 106
IsImageUrl(request) ==
  /\ ~IsUrlVerification(request)
  /\ request.event_type = "message"
  /\ request.subtype # "file_share"
  /\ request.image_url
\* line 128
IsMessageDeleted(request) ==
  /\ ~IsUrlVerification(request)
  /\ request.event_type = "message"
  /\ request.subtype # "file_share"
  /\ ~request.image_url
  /\ request.subtype = "message_deleted"
  /\ request.previous_message # 0
\* line 137
IsReactionAdded(request) ==
  ~IsUrlVerification(request) /\ request.event_type = "reaction_added"
\* line 152
IsReactionRemoved(request) ==
  ~IsUrlVerification(request) /\ request.event_type = "reaction_removed"

\* line 97 without the filetype test
FileShareFetches_any(request) == TRUE

\* the file_share branch fetches (line 97)
FileShareFetches(request) == request.filetype \in {"jpg", "gif", "png"}
\* the file_share branch stores what it fetched (lines 100-103)
FileShareStores(request) ==
  /\ FileShareFetches(request)
  /\ ~request.file_response.raises
  /\ ~StartsWith(request.file_response.content_type, "text/html")
\* the image URL branch stores what it fetched (lines 118-125)
ImageUrlStores(request) ==
  /\ ~request.file_response.raises
  /\ request.file_response.ok
  /\ \E prefix \in {"image/jpeg", "image/gif", "image/png"} :
       StartsWith(request.file_response.content_type, prefix)

\* ------------------------------------------------------------ the actions
\* A request is taken when the one before it has been answered
\* (resp = "none").

\* what one handled request leaves behind
\* the listeners: a full message state replaces what they show, a {color}
\* state recolours it
NoView == [id |-> 0, color |-> "none"]

RECURSIVE Listen(_, _)
Listen(shown, sent) ==
  IF sent = <<>> THEN shown
  ELSE LET state == Head(sent)
       IN  Listen(IF "id" \in DOMAIN state
                  THEN [id |-> state.id, color |-> state.color]
                  ELSE [shown EXCEPT !.color = state.color],
                  Tail(sent))

\* the workers that run slack_event at the same time
Workers == 1..MaxWorkers

\* a worker with no request
Idle == [pc |-> "idle", request |-> Blank, handle |-> <<>>, waited |-> 0]

NoAdd == [stage |-> "none", index |-> 0, reaction |-> "none", before |-> <<>>]

NoIo     == [fetch |-> FALSE, scope |-> FALSE]
FetchIo  == [fetch |-> TRUE,  scope |-> FALSE]
ScopeIo  == [fetch |-> FALSE, scope |-> TRUE]
FetchScopeIo == [fetch |-> TRUE, scope |-> TRUE]

Handled(request, history, index, sent, response, called) ==
  /\ pre' = hist
  /\ io' = called
  /\ last' = request
  /\ hist' = history
  /\ found' = index
  /\ pub' = sent
  /\ resp' = response
  /\ folded' = IF /\ folded.only
                  /\ response = "ok"
                  /\ IsFileShare(request) \/ IsImageUrl(request)
                  /\ Len(history) > Len(hist)
               THEN [only |-> TRUE, ts |-> Append(folded.ts, request.ts)]
               ELSE [only |-> FALSE, ts |-> <<>>]
  /\ view' = Listen(view, sent)
  /\ added' = IF response = "ok" /\ IsReactionAdded(request) /\ index # 0
              THEN [ stage |-> "open", index |-> index,
                     reaction |-> request.reaction, before |-> hist ]
              ELSE IF /\ added.stage = "open"
                      /\ response = "ok"
                      /\ IsReactionRemoved(request)
              THEN [added EXCEPT !.stage = "closed"]
              ELSE NoAdd
  /\ UNCHANGED <<reactions_in, color_out, lock, taken, proc>>

\* line 70: the signature check raises SuspiciousOperation
Rejected(request) ==
  /\ resp = "none"
  /\ ~verify_slack_request(request)
  /\ Handled(request, hist, 0, <<>>, "SuspiciousOperation", NoIo)

\* lines 75-76
UrlVerification(request) ==
  /\ resp = "none"
  /\ verify_slack_request(request)
  /\ IsUrlVerification(request)
  /\ Handled(request, hist, 0, <<>>, request.challenge, NoIo)

\* lines 86-103
FileShare(request) ==
  /\ resp = "none"
  /\ verify_slack_request(request)
  /\ IsFileShare(request)
  /\ IF FileShareFetches(request) /\ request.file_response.raises
     THEN Handled(request, hist, 0, <<>>, "RequestException", FetchIo)
     ELSE IF FileShareStores(request)
     THEN /\ Len(hist) < MaxHist
          /\ LET s == store_image(request.ts, request.file_response)
             IN  Handled(request, s.hist, 0, s.pub, "ok", FetchScopeIo)
     ELSE Handled(request, hist, 0, <<>>, "ok",
                  IF FileShareFetches(request) THEN FetchIo ELSE NoIo)

\* lines 106-125
ImageUrl(request) ==
  /\ resp = "none"
  /\ verify_slack_request(request)
  /\ IsImageUrl(request)
  /\ IF ImageUrlStores(request)
     THEN /\ Len(hist) < MaxHist
          /\ LET s == store_image(request.ts, request.file_response)
             IN  Handled(request, s.hist, 0, s.pub, "ok", FetchScopeIo)
     ELSE Handled(request, hist, 0, <<>>, "ok", FetchIo)

\* lines 128-134 without the  if message  of line 131
MessageDeleted_unguarded(request) ==
  /\ resp = "none"
  /\ verify_slack_request(request)
  /\ IsMessageDeleted(request)
  /\ \E index \in message_for_ts(get_message_history, request.previous_message) :
       LET is_most_recent == index # 0 /\ index = Len(get_message_history)
       IN  IF get_message_history # <<>>
           THEN LET message_history == Pop(get_message_history)
                IN  Handled(request, message_history, index,
                            IF is_most_recent /\ message_history # <<>>
                            THEN send_state(message_history[Len(message_history)])
                            ELSE <<>>,
                            "ok", ScopeIo)
           ELSE Handled(request, hist, 0, <<>>, "IndexError", ScopeIo)

\* lines 128-134
MessageDeleted(request) ==
  /\ resp = "none"
  /\ verify_slack_request(request)
  /\ IsMessageDeleted(request)
  /\ \E index \in message_for_ts(get_message_history, request.previous_message) :
       LET is_most_recent == index = Len(get_message_history)
       IN  IF index # 0
           THEN LET message_history == Pop(get_message_history)
                IN  Handled(request, message_history, index,
                            IF is_most_recent /\ message_history # <<>>
                            THEN send_state(message_history[Len(message_history)])
                            ELSE <<>>,
                            "ok", ScopeIo)
           ELSE Handled(request, hist, 0, <<>>, "ok", ScopeIo)

\* lines 137-150
ReactionAdded(request) ==
  /\ resp = "none"
  /\ verify_slack_request(request)
  /\ IsReactionAdded(request)
  /\ \E index \in message_for_ts(get_message_history, request.item_ts) :
       LET is_most_recent == index = Len(hist)
       IN  IF index # 0
           THEN /\ TotalReactions(hist) < MaxReactions
                /\ LET message == [hist[index] EXCEPT
                                     !.reactions = Insert0(@, request.reaction)]
                       h == handle_reactions(message, is_most_recent)
                   IN  Handled(request, [hist EXCEPT ![index] = h.message],
                               index, h.pub, "ok", ScopeIo)
           ELSE Handled(request, hist, 0, <<>>, "ok", ScopeIo)

\* lines 152-161 with handle_reactions called after the except as well
ReactionRemoved_recomputes(request) ==
  /\ resp = "none"
  /\ verify_slack_request(request)
  /\ IsReactionRemoved(request)
  /\ \E index \in message_for_ts(get_message_history, request.item_ts) :
       LET is_most_recent == index = Len(hist)
       IN  IF index # 0
           THEN LET present == \E k \in 1..Len(hist[index].reactions) :
                                 hist[index].reactions[k] = request.reaction
                    message == IF present
                               THEN [hist[index] EXCEPT
                                       !.reactions = Remove(@, request.reaction)]
                               ELSE hist[index]
                    h == handle_reactions(message, is_most_recent)
                IN  Handled(request, [hist EXCEPT ![index] = h.message],
                            index, h.pub, "ok", ScopeIo)
           ELSE Handled(request, hist, index, <<>>, "ok", ScopeIo)

\* lines 152-161
ReactionRemoved(request) ==
  /\ resp = "none"
  /\ verify_slack_request(request)
  /\ IsReactionRemoved(request)
  /\ \E index \in message_for_ts(get_message_history, request.item_ts) :
       LET is_most_recent == index = Len(hist)
       IN  IF index # 0 /\ \E k \in 1..Len(hist[index].reactions) :
                             hist[index].reactions[k] = request.reaction
           THEN LET message == [hist[index] EXCEPT
                                  !.reactions = Remove(@, request.reaction)]
                    h == handle_reactions(message, is_most_recent)
                IN  Handled(request, [hist EXCEPT ![index] = h.message],
                            index, h.pub, "ok", ScopeIo)
           ELSE Handled(request, hist, index, <<>>, "ok", ScopeIo)

\* lines 78-164 when no branch applies: straight to line 164
Ignored(request) ==
  /\ resp = "none"
  /\ verify_slack_request(request)
  /\ ~IsUrlVerification(request)
  /\ ~IsFileShare(request)
  /\ ~IsImageUrl(request)
  /\ ~IsMessageDeleted(request)
  /\ ~IsReactionAdded(request)
  /\ ~IsReactionRemoved(request)
  /\ Handled(request, hist, 0, <<>>, "ok", NoIo)

\* line 76 or 164, or the exception leaving the view: the response is out
\* and the request's record is gone; the history stays
Return ==
  /\ resp # "none"
  /\ pre' = <<>>
  /\ last' = Blank
  /\ found' = 0
  /\ pub' = <<>>
  /\ resp' = "none"
  /\ io' = NoIo
  /\ added' = IF added.stage = "closed" THEN NoAdd ELSE added
  /\ UNCHANGED <<hist, folded, view, reactions_in, color_out, lock, taken, proc>>

Init ==
  /\ hist = <<>>
  /\ pre = <<>>
  /\ last = Blank
  /\ found = 0
  /\ pub = <<>>
  /\ resp = "none"
  /\ io = NoIo
  /\ folded = [only |-> TRUE, ts |-> <<>>]
  /\ view = NoView
  /\ added = NoAdd
  /\ lock = 0
  /\ taken = 0
  /\ proc = [w \in Workers |-> Idle]
  /\ reactions_in = <<>>
  /\ color_out = "unset"

Next ==
  \/ \E request \in Requests : Rejected(request)
  \/ \E request \in Requests : UrlVerification(request)
  \/ \E request \in Requests : FileShare(request)
  \/ \E request \in Requests : ImageUrl(request)
  \/ \E request \in Requests : MessageDeleted(request)
  \/ \E request \in Requests : ReactionAdded(request)
  \/ \E request \in Requests : ReactionRemoved(request)
  \/ \E request \in Requests : Ignored(request)
  \/ Return

Spec == Init /\ [][Next]_vars

\* ------------------------------------------------- the resolver on its own
ResolveNames ==
  {"smile", "tired_face", "night_with_stars", "blue_heart", "redblack",
   "bluenight", "nigh"}

RECURSIVE SeqsUpTo(_, _)
SeqsUpTo(S, n) ==
  IF n = 0 THEN {<<>>}
  ELSE LET shorter == SeqsUpTo(S, n - 1)
       IN  shorter \cup {Insert0(s, x) : s \in {t \in shorter : Len(t) = n - 1}, x \in S}

InitResolve ==
  /\ hist = <<>>
  /\ pre = <<>>
  /\ last = Blank
  /\ found = 0
  /\ pub = <<>>
  /\ resp = "none"
  /\ io = NoIo
  /\ folded = [only |-> TRUE, ts |-> <<>>]
  /\ view = NoView
  /\ added = NoAdd
  /\ lock = 0
  /\ taken = 0
  /\ proc = [w \in Workers |-> Idle]
  /\ reactions_in \in SeqsUpTo(ResolveNames, MaxScan)
  /\ color_out = "unset"

\* lines 34-47 applied to reactions_in
Resolve ==
  /\ color_out = "unset"
  /\ color_out' = resolve(reactions_in)
  /\ UNCHANGED <<hist, pre, last, found, pub, resp, io, folded, view, added,
               reactions_in, lock, taken, proc>>

NextResolve == Resolve

SpecResolve == InitResolve /\ [][NextResolve]_vars

\* --------------------------------------------- requests at the same time
\* Several workers run slack_event at once.  A worker takes a request
\* (lines 70-97, 106), waits for requests.get if the request is an image
\* share (lines 99, 119), enters the get_message_history scope (lines 56,
\* 129, 146, 153), and leaves it with its edit stored (lines 57-63, 130-134,
\* 147-150, 154-161).

ConcRequests ==
  { [Blank EXCEPT !.event_type = "message", !.subtype = "file_share",
                  !.filetype = "png", !.ts = 2],
    [Blank EXCEPT !.event_type = "message", !.subtype = "message_changed",
                  !.image_url = TRUE, !.ts = 1],
    [Blank EXCEPT !.event_type = "message", !.subtype = "message_deleted",
                  !.previous_message = 2] }
  \cup { [Blank EXCEPT !.event_type = "reaction_added", !.item_ts = t,
                       !.reaction = n] : t \in Ts, n \in ReactionNames }
  \cup { [Blank EXCEPT !.event_type = "reaction_removed", !.item_ts = t,
                       !.reaction = "tired_face"] : t \in Ts }

ConcResponses == {Png, Raises}

IsShare(request) == IsFileShare(request) \/ IsImageUrl(request)

\* the ts a request looks up in the scope, 0 when it looks nothing up
LookedUp(request) ==
  IF IsMessageDeleted(request) THEN request.previous_message
  ELSE IF IsReactionAdded(request) \/ IsReactionRemoved(request)
  THEN request.item_ts
  ELSE 0

\* lines 147-150 and 154-161 with handle_reactions after the with block:
\* the colour it sets is not stored
scope_body_colour_outside(request, message_history, index) ==
  IF IsShare(request)
  THEN LET stored == Append(message_history,
                            [ id        |-> request.ts,
                              image     |-> encoded_image(request.file_response),
                              reactions |-> <<>>,
                              color     |-> "#fff" ])
       IN  [hist |-> stored, pub |-> send_state(stored[Len(stored)])]
  ELSE IF index = 0
  THEN [hist |-> message_history, pub |-> <<>>]
  ELSE IF IsMessageDeleted(request)
  THEN LET popped == Pop(message_history)
       IN  [ hist |-> popped,
             pub  |-> IF index = Len(message_history) /\ popped # <<>>
                      THEN send_state(popped[Len(popped)])
                      ELSE <<>> ]
  ELSE IF IsReactionAdded(request)
  THEN LET message == [message_history[index] EXCEPT
                         !.reactions = Insert0(@, request.reaction)]
           h == handle_reactions(message, index = Len(message_history))
       IN  [hist |-> [message_history EXCEPT ![index] = message], pub |-> h.pub]
  ELSE IF \E k \in 1..Len(message_history[index].reactions) :
            message_history[index].reactions[k] = request.reaction
  THEN LET message == [message_history[index] EXCEPT
                         !.reactions = Remove(@, request.reaction)]
           h == handle_reactions(message, index = Len(message_history))
       IN  [hist |-> [message_history EXCEPT ![index] = message], pub |-> h.pub]
  ELSE [hist |-> message_history, pub |-> <<>>]

\* what a handler does to the history the scope handed to it, index being
\* what message_for_ts returned: lines 57-63, 130-134, 147-150, 154-161
scope_body(request, message_history, index) ==
  IF IsShare(request)
  THEN LET stored == Append(message_history,
                            [ id        |-> request.ts,
                              image     |-> encoded_image(request.file_response),
                              reactions |-> <<>>,
                              color     |-> "#fff" ])
       IN  [hist |-> stored, pub |-> send_state(stored[Len(stored)])]
  ELSE IF index = 0
  THEN [hist |-> message_history, pub |-> <<>>]
  ELSE IF IsMessageDeleted(request)
  THEN LET popped == Pop(message_history)
       IN  [ hist |-> popped,
             pub  |-> IF index = Len(message_history) /\ popped # <<>>
                      THEN send_state(popped[Len(popped)])
                      ELSE <<>> ]
  ELSE IF IsReactionAdded(request)
  THEN LET message == [message_history[index] EXCEPT
                         !.reactions = Insert0(@, request.reaction)]
           h == handle_reactions(message, index = Len(message_history))
       IN  [hist |-> [message_history EXCEPT ![index] = h.message], pub |-> h.pub]
  ELSE IF \E k \in 1..Len(message_history[index].reactions) :
            message_history[index].reactions[k] = request.reaction
  THEN LET message == [message_history[index] EXCEPT
                         !.reactions = Remove(@, request.reaction)]
           h == handle_reactions(message, index = Len(message_history))
       IN  [hist |-> [message_history EXCEPT ![index] = h.message], pub |-> h.pub]
  ELSE [hist |-> message_history, pub |-> <<>>]

\* Take with requests.get called inside the get_message_history scope
Take_fetch_in_scope(w, request) ==
  /\ proc[w].pc = "idle"
  /\ taken < MaxTaken
  /\ taken' = taken + 1
  /\ verify_slack_request(request)
  /\ IF IsShare(request)
     THEN /\ lock = 0
          /\ lock' = w
          /\ proc' = [proc EXCEPT ![w] = [ pc |-> "fetching", request |-> request,
                                           handle |-> get_message_history,
                                           waited |-> 0 ]]
     ELSE /\ proc' = [proc EXCEPT ![w] = [Idle EXCEPT !.pc = "ready",
                                                      !.request = request]]
          /\ UNCHANGED lock
  /\ UNCHANGED <<hist, pre, last, found, pub, resp, io, folded, view, added,
                 reactions_in, color_out>>

\* lines 70-99, 106-119: the request is verified and its branch chosen; an
\* image share calls requests.get
Take(w, request) ==
  /\ proc[w].pc = "idle"
  /\ taken < MaxTaken
  /\ taken' = taken + 1
  /\ verify_slack_request(request)
  /\ proc' = [proc EXCEPT ![w] =
                [Idle EXCEPT !.pc = IF IsShare(request) THEN "fetching" ELSE "ready",
                             !.request = request]]
  /\ UNCHANGED <<hist, pre, last, found, pub, resp, io, folded, view, added,
                 reactions_in, color_out, lock>>

\* lines 99-103, 119-125: requests.get is back; what cannot be stored ends
\* the view
FetchDone(w, file_response) ==
  /\ proc[w].pc = "fetching"
  /\ LET request == [proc[w].request EXCEPT !.file_response = file_response]
     IN  proc' = [proc EXCEPT ![w] =
                    IF \/ IsFileShare(request) /\ FileShareStores(request)
                       \/ IsImageUrl(request) /\ ImageUrlStores(request)
                    THEN [@ EXCEPT !.pc = "ready", !.request = request]
                    ELSE Idle]
  /\ UNCHANGED <<hist, pre, last, found, pub, resp, io, folded, view, added,
                 reactions_in, color_out, lock, taken>>

\* lines 56, 129, 146, 153: the scope is free and hands the history out
Enter(w) ==
  /\ proc[w].pc = "ready"
  /\ lock = 0
  /\ IsShare(proc[w].request) => Len(hist) < MaxHist
  /\ IsReactionAdded(proc[w].request) => TotalReactions(hist) < MaxReactions
  /\ lock' = w
  /\ proc' = [v \in Workers |->
                IF v = w
                THEN [proc[v] EXCEPT !.pc = "scope", !.handle = get_message_history]
                ELSE IF proc[v].pc = "ready"
                THEN [proc[v] EXCEPT !.waited = LookedUp(proc[w].request)]
                ELSE proc[v]]
  /\ UNCHANGED <<hist, pre, last, found, pub, resp, io, folded, view, added,
                 reactions_in, color_out, taken>>

\* lines 57-63, 130-134, 147-150, 154-161 and the end of the with block: the
\* edit is made on the history handed out, stored, and the scope is free
Leave(w) ==
  /\ proc[w].pc = "scope"
  /\ lock = w
  /\ \E index \in message_for_ts(proc[w].handle, LookedUp(proc[w].request)) :
       hist' = scope_body(proc[w].request, proc[w].handle, index).hist
  /\ lock' = 0
  /\ proc' = [proc EXCEPT ![w] = Idle]
  /\ UNCHANGED <<pre, last, found, pub, resp, io, folded, view, added,
                 reactions_in, color_out, taken>>

NextConc ==
  \/ \E w \in Workers, request \in ConcRequests : Take(w, request)
  \/ \E w \in Workers, file_response \in ConcResponses : FetchDone(w, file_response)
  \/ \E w \in Workers : Enter(w)
  \/ \E w \in Workers : Leave(w)

SpecConc == Init /\ [][NextConc]_vars

\* ------------------------------------------------------------------ claims
\* the last request passed the signature check and was acknowledged
Acknowledged == last.signed /\ resp = "ok"

DeletedHandled  == Acknowledged /\ IsMessageDeleted(last)
AddedHandled    == Acknowledged /\ IsReactionAdded(last)
RemovedHandled  == Acknowledged /\ IsReactionRemoved(last)
ShareStored ==
  /\ Acknowledged
  /\ IsFileShare(last) \/ IsImageUrl(last)
  /\ Len(hist) > Len(pre)

DistinctIds(history) ==
  \A i, j \in 1..Len(history) : history[i].id = history[j].id => i = j

Occurrences(seq, x) == Cardinality({k \in 1..Len(seq) : seq[k] = x})

\* the colour of section 4.1: the first reaction that matches a rule decides
Matches(reaction) ==
  In("night", reaction) \/ \E j \in 1..Len(colors) : In(colors[j], reaction)

FirstMatchColor(reactions) ==
  LET M == {i \in 1..Len(reactions) : Matches(reactions[i])}
  IN  IF M = {} THEN "#fff"
      ELSE LET i == CHOOSE k \in M : \A l \in M : k <= l
               r == reactions[i]
           IN  IF In("night", r) THEN "#000"
               ELSE LET P == {j \in 1..Len(colors) : In(colors[j], r)}
                    IN  colors[CHOOSE j \in P : \A l \in P : j <= l]

\* C1: a message_deleted event whose previous_message ts is the id of a
\* message of the history other than the last one leaves the history as it
\* was and sends nothing; a message leaves the history only by a deletion
\* whose target is the id of the last message.
C1_NonTailDeletionIsNoOp ==
  /\ ( /\ DeletedHandled
       /\ \E i \in 1..(Len(pre) - 1) : pre[i].id = last.previous_message
       /\ pre[Len(pre)].id # last.previous_message )
     => (hist = pre /\ pub = <<>>)
  /\ Len(hist) < Len(pre)
     => (DeletedHandled /\ pre[Len(pre)].id = last.previous_message)

\* C2: on a non-empty history with distinct ids, a message_deleted event whose
\* previous_message ts is the id of the tail removes the tail and nothing
\* else, then sends the new tail once if a message remains and nothing if
\* the history became empty.
C2_TailDeletion ==
  ( /\ DeletedHandled
    /\ pre # <<>>
    /\ DistinctIds(pre)
    /\ pre[Len(pre)].id = last.previous_message )
  => /\ Len(hist) = Len(pre) - 1
     /\ \A i \in 1..Len(hist) : hist[i] = pre[i]
     /\ pub = IF Len(pre) > 1 THEN <<pre[Len(pre) - 1]>> ELSE <<>>

C2_Witness ==
  /\ DeletedHandled
  /\ Len(pre) = 2
  /\ DistinctIds(pre)
  /\ pre[2].id = last.previous_message
  /\ pre[1].reactions # <<>>
  /\ pub = <<pre[1]>>

\* C3: a reaction_added event on the tail sends exactly one {color: c} when
\* the colour c resolved from the updated reactions differs from the colour
\* the message had, and sends nothing when c is the colour the message had
\* (a white message given a reaction that matches no rule included).
C3_TailReactionAdded ==
  (AddedHandled /\ found # 0 /\ found = Len(pre))
  => LET c == FirstMatchColor(hist[found].reactions)
     IN  pub = IF c # pre[found].color THEN << [color |-> c] >> ELSE <<>>

C5_IdsUnique == DistinctIds(hist)

\* C6: from the empty history, N stored image shares and nothing else give N
\* messages in the order of the shares, the k-th with the ts of the k-th
\* share, no reactions and the white colour; a share leaves the earlier
\* messages as they were.
C6_FoldOfShares ==
  /\ folded.only
     => /\ Len(hist) = Len(folded.ts)
        /\ \A k \in 1..Len(hist) :
             /\ hist[k].id = folded.ts[k]
             /\ hist[k].reactions = <<>>
             /\ hist[k].color = "#fff"
  /\ ShareStored
     => /\ Len(hist) = Len(pre) + 1
        /\ \A k \in 1..Len(pre) : hist[k] = pre[k]

C6_Witness ==
  /\ folded.only
  /\ Len(folded.ts) = 2
  /\ folded.ts[1] # folded.ts[2]
  /\ ShareStored

\* C7: an image share that creates a message sends exactly one state, the
\* whole record of the message it appended, whatever the history was.
C7_ShareBroadcast ==
  ShareStored
  => /\ pub = <<hist[Len(hist)]>>
     /\ hist[Len(hist)] = [ id        |-> last.ts,
                            image     |-> <<"data:", last.file_response.content_type,
                                            ";base64,", last.file_response.content>>,
                            reactions |-> <<>>,
                            color     |-> "#fff" ]

C7_Witness ==
  /\ ShareStored
  /\ pre # <<>>
  /\ pre[1] # hist[Len(hist)]
  /\ pre[1].reactions # <<>>

\* C8: a reaction_removed event for a reaction the target message does not
\* hold leaves the whole history as it was, sends nothing and is
\* acknowledged.
C8_RemoveAbsent ==
  ( /\ last.signed
    /\ IsReactionRemoved(last)
    /\ resp # "none"
    /\ found # 0
    /\ Occurrences(pre[found].reactions, last.reaction) = 0 )
  => (hist = pre /\ pub = <<>> /\ resp = "ok")

C8_Witness ==
  /\ RemovedHandled
  /\ found # 0
  /\ found = Len(pre)
  /\ pre[found].reactions # <<>>
  /\ Occurrences(pre[found].reactions, last.reaction) = 0

\* C9: a reaction_removed event for a reaction the message holds k >= 1
\* times removes the first occurrence only: the name is left k-1 times and
\* the other reactions keep their order; a reaction_added event puts the
\* name first, the reactions the message had following in their order.
C9_ReactionEdits ==
  /\ ( /\ RemovedHandled
       /\ found # 0
       /\ Occurrences(pre[found].reactions, last.reaction) >= 1 )
     => LET old == pre[found].reactions
            new == hist[found].reactions
            F   == {k \in 1..Len(old) : old[k] = last.reaction}
            i   == CHOOSE k \in F : \A l \in F : k <= l
        IN  /\ Len(new) = Len(old) - 1
            /\ \A j \in 1..(i - 1) : new[j] = old[j]
            /\ \A j \in i..Len(new) : new[j] = old[j + 1]
            /\ Occurrences(new, last.reaction)
                 = Occurrences(old, last.reaction) - 1
  /\ (AddedHandled /\ found # 0)
     => LET old == pre[found].reactions
            new == hist[found].reactions
        IN  /\ Len(new) = Len(old) + 1
            /\ new[1] = last.reaction
            /\ \A j \in 1..Len(old) : new[j + 1] = old[j]

C9_Witness ==
  /\ RemovedHandled
  /\ found # 0
  /\ LET old == pre[found].reactions
     IN  /\ Len(old) = 3
         /\ old[1] = last.reaction
         /\ old[2] # last.reaction
         /\ old[3] = last.reaction

\* C10: the resolver answers with the first reaction, in stored order, that
\* matches a rule, whatever follows it: #000 if that reaction contains
\* "night", else the first of black, red, orange, yellow, green, blue,
\* purple it contains; with no matching reaction it answers white, which is
\* not black.
C10_Resolver ==
  color_out # "unset"
  => /\ color_out = FirstMatchColor(reactions_in)
     /\ (\A i \in 1..Len(reactions_in) : ~Matches(reactions_in[i]))
        => (color_out = "#fff" /\ color_out # "black" /\ color_out # "#000")

C10_Witness ==
  /\ color_out = "black"
  /\ Len(reactions_in) = 3
  /\ reactions_in[1] = "nigh"
  /\ reactions_in[2] = "redblack"
  /\ reactions_in[3] = "bluenight"

\* the last request passed the signature check and has been answered
Answered == last.signed /\ resp # "none"

\* the last request is an image share that leads to a fetch: an uploaded
\* image file, or a message with an unfurled image URL
FetchingShare ==
  /\ last.type # "url_verification"
  /\ last.event_type = "message"
  /\ \/ last.subtype = "file_share" /\ last.filetype \in {"jpg", "gif", "png"}
     \/ last.subtype # "file_share" /\ last.image_url

AcceptedImage(file_response) ==
  /\ ~file_response.raises
  /\ file_response.ok
  /\ file_response.content_type \in {"image/jpeg", "image/gif", "image/png"}

\* C11: on both image share paths, a fetch that fails or answers with a
\* content type other than jpeg, gif or png adds no message, sends nothing,
\* raises nothing and is acknowledged.
C11_BadFetchDropped ==
  (Answered /\ FetchingShare /\ ~AcceptedImage(last.file_response))
  => (hist = pre /\ pub = <<>> /\ resp = "ok")

\* the ts the last request looks up
TargetTs ==
  IF last.event_type = "message" THEN last.previous_message ELSE last.item_ts

LooksUp ==
  /\ last.type # "url_verification"
  /\ \/ last.event_type \in {"reaction_added", "reaction_removed"}
     \/ /\ last.event_type = "message"
        /\ last.subtype = "message_deleted"
        /\ ~last.image_url
        /\ last.previous_message # 0

\* C14: a reaction_added, reaction_removed or message_deleted event whose
\* target ts is the id of no message of the history leaves the history as it
\* was, sends nothing and is acknowledged.
C14_LookupMiss ==
  (Answered /\ LooksUp /\ \A i \in 1..Len(pre) : pre[i].id # TargetTs)
  => (hist = pre /\ pub = <<>> /\ resp = "ok")

C14_Witness ==
  /\ Answered
  /\ LooksUp
  /\ last.event_type = "message"
  /\ pre # <<>>
  /\ \A i \in 1..Len(pre) : pre[i].id # TargetTs
  /\ io.scope

\* C15: a request whose signature does not verify is rejected before
\* anything else: the history is as it was, nothing is sent, nothing is
\* fetched, and neither an acknowledgment nor a challenge is returned.
C15_Unverified ==
  (~last.signed /\ resp # "none")
  => /\ hist = pre
     /\ pub = <<>>
     /\ io = [fetch |-> FALSE, scope |-> FALSE]
     /\ resp # "ok"
     /\ resp # last.challenge

C15_Witness ==
  /\ ~last.signed
  /\ resp = "SuspiciousOperation"
  /\ last.subtype = "file_share"
  /\ pre # <<>>

\* the last request is of a kind the view does nothing for
Irrelevant ==
  /\ last.type # "url_verification"
  /\ \/ last.event_type \notin {"message", "reaction_added", "reaction_removed"}
     \/ /\ last.event_type = "message"
        /\ \/ last.subtype = "file_share" /\ last.filetype \notin {"jpg", "gif", "png"}
           \/ /\ last.subtype # "file_share"
              /\ ~last.image_url
              /\ last.subtype # "message_deleted" \/ last.previous_message = 0

\* C16: a url_verification request is answered with its challenge and
\* neither enters the history scope, changes the history nor sends; a
\* verified request of a kind the view does nothing for leaves the history
\* as it was, sends nothing and gets the empty acknowledgment.
C16_ChallengeAndIrrelevant ==
  /\ (Answered /\ last.type = "url_verification")
     => /\ resp = last.challenge
        /\ hist = pre
        /\ pub = <<>>
        /\ ~io.scope
  /\ (Answered /\ Irrelevant)
     => (hist = pre /\ pub = <<>> /\ resp = "ok")

C16_Witness ==
  /\ Answered
  /\ Irrelevant
  /\ last.subtype = "file_share"
  /\ Len(pre) = 1

Palette == {colors[j] : j \in 1..Len(colors)}

\* C17: every message of the history has the colour the resolver yields for
\* its reactions (white when none matches), and that colour is white, #000
\* or a palette name, never absent.
C17_StoredColour ==
  \A i \in 1..Len(hist) :
    /\ hist[i].color = FirstMatchColor(hist[i].reactions)
    /\ hist[i].color \in {"#fff", "#000"} \cup Palette

C17_Witness ==
  /\ RemovedHandled
  /\ found # 0
  /\ pre[found].color = "red"
  /\ hist[found].color = "#fff"
  /\ hist[found].reactions # <<>>

\* C18: whenever the history is not empty, what the listeners show has the
\* id and the colour of the last message of the history.
C18_ViewTracksTail ==
  hist # <<>>
  => /\ view.id = hist[Len(hist)].id
     /\ view.color = hist[Len(hist)].color

\* C19: a reaction_added event for r on a message m, followed at once by a
\* reaction_removed event for r on m, leaves m with the reactions and the
\* colour it had before the two events and every other message as it was.
C19_AddThenRemove ==
  ( /\ RemovedHandled
    /\ added.stage = "closed"
    /\ found = added.index
    /\ last.reaction = added.reaction )
  => /\ Len(hist) = Len(added.before)
     /\ hist[found].reactions = added.before[found].reactions
     /\ hist[found].color = added.before[found].color
     /\ \A i \in 1..Len(hist) : i # found => hist[i] = added.before[i]

C19_Witness ==
  /\ RemovedHandled
  /\ added.stage = "closed"
  /\ found = added.index
  /\ last.reaction = added.reaction
  /\ Len(hist) = 2
  /\ added.before[found].reactions # <<>>
  /\ added.before[found].color # pre[found].color

\* the workers inside the get_message_history scope
InScope == {w \in Workers : proc[w].pc = "scope"}

\* the history after the edit of request is the history before it with that
\* one edit made
EditOf(request, before, after) ==
  IF IsShare(request)
  THEN /\ Len(after) = Len(before) + 1
       /\ SubSeq(after, 1, Len(before)) = before
       /\ after[Len(after)].id = request.ts
       /\ after[Len(after)].reactions = <<>>
  ELSE IF IsMessageDeleted(request)
  THEN /\ Len(after) = Len(before) - 1
       /\ after = SubSeq(before, 1, Len(after))
  ELSE \E i \in 1..Len(before) :
         /\ before[i].id = request.item_ts
         /\ Len(after) = Len(before)
         /\ \A j \in 1..Len(before) : j # i => after[j] = before[j]
         /\ after[i].id = before[i].id
         /\ after[i].image = before[i].image
         /\ IF IsReactionAdded(request)
            THEN after[i].reactions = <<request.reaction>> \o before[i].reactions
            ELSE /\ Len(after[i].reactions) = Len(before[i].reactions) - 1
                 /\ \A n \in ReactionNames :
                      Occurrences(after[i].reactions, n)
                        = Occurrences(before[i].reactions, n)
                          - (IF n = request.reaction THEN 1 ELSE 0)

\* the history changes only by the edit of the worker that holds the scope,
\* made on the history as it is now, as that worker leaves the scope
EditedInScope ==
  hist' # hist
  => \E w \in Workers :
       /\ lock = w
       /\ InScope = {w}
       /\ proc'[w].pc = "idle"
       /\ lock' = 0
       /\ EditOf(proc[w].request, hist, hist')

\* C12: at most one worker is inside the history scope, and it is the one
\* that holds it; the history changes only as that worker leaves the scope,
\* by its one edit made on the current history, so that an edit made while
\* another request waited is never lost; and every message has the colour
\* that its reactions resolve to.
C12_ExclusiveScope ==
  /\ [](/\ Cardinality(InScope) <= 1
        /\ \A w \in Workers : w \in InScope <=> lock = w
        /\ \A w \in InScope : proc[w].handle = hist
        /\ \A i \in 1..Len(hist) :
             hist[i].color = FirstMatchColor(hist[i].reactions))
  /\ [][EditedInScope]_vars

\* a reaction edit is in the scope after it waited for another edit of the
\* same message, and the history it was handed has that edit and its colour
C12_Witness ==
  \E w \in Workers :
    /\ proc[w].pc = "scope"
    /\ IsReactionAdded(proc[w].request)
    /\ proc[w].request.reaction = "smile"
    /\ proc[w].waited = proc[w].request.item_ts
    /\ \E i \in 1..Len(proc[w].handle) :
         /\ proc[w].handle[i].id = proc[w].request.item_ts
         /\ proc[w].handle[i].reactions = <<"tired_face">>
         /\ proc[w].handle[i].color = "red"
         /\ hist[i] = proc[w].handle[i]

\* C13: a worker whose requests.get is in flight does not hold the history
\* scope, and a worker inside the scope for an image share has the response
\* of a fetch that returned.
C13_FetchBeforeScope ==
  \A w \in Workers :
    /\ proc[w].pc = "fetching" => lock # w
    /\ (proc[w].pc = "scope" /\ IsShare(proc[w].request))
       => /\ proc[w].request.file_response # NoResponse
          /\ ~proc[w].request.file_response.raises
          /\ proc[w].request.file_response.content # "none"

\* one worker waits for its fetch while another is in the scope with the
\* image it fetched
C13_Witness ==
  \E w, v \in Workers :
    /\ proc[w].pc = "fetching"
    /\ proc[v].pc = "scope"
    /\ lock = v
    /\ IsShare(proc[v].request)
    /\ proc[v].request.file_response = Png

====
